---- MODULE Spec2Model ----
(***************************************************************************)
(* A model of bundled/tool/lsp_server.py: the SQLFluff language server.    *)
(* State: the two module-level settings dictionaries, the diagnostics last *)
(* published per URI, and a record of the last handled request (the tool   *)
(* attempts it made and what it returned).  One action per LSP handler.   *)
(***************************************************************************)
EXTENDS Integers, Sequences, FiniteSets, TLC

VARIABLES
    WORKSPACE_SETTINGS, \* ordered dict: sequence of [key, val], insertion order
    GLOBAL_SETTINGS,    \* dict: function from a subset of GlobalKeys
    published,          \* URI -> [any |-> BOOLEAN, diags |-> sequence]: last publication
    closed,             \* URI -> whether the last document event for it is did_close
    req                 \* the last handled request and all it did

vars == <<WORKSPACE_SETTINGS, GLOBAL_SETTINGS, published, closed, req>>

-----------------------------------------------------------------------------
(* Bounds of the model.                                                    *)

\* longest directory path (in components) of a workspace root or a document
MaxDepth == 2
\* most workspace entries the settings map is grown to
MaxWorkspaces == 2
\* most violation entries of one file's report
MaxViolations == 3
\* the longest document source and tool output of the line-ending runs
MaxText == 3

-----------------------------------------------------------------------------
(* Python values.                                                          *)

\* None, for a value that is otherwise a string
NoneStr == "<None>"
\* None, for a value that is otherwise a path (a sequence of components)
NonePath == <<"<None>">>

\* bool(s) of a string-or-None value
Truthy(s) == s \notin {"", NoneStr}

\* d.get(k, default)
Get(d, k, default) == IF k \in DOMAIN d THEN d[k] ELSE default

\* {**a, **b}: the keys of both, b's value where both have the key
Merge(a, b) == [k \in (DOMAIN a) \cup (DOMAIN b) |-> IF k \in DOMAIN b THEN b[k] ELSE a[k]]

\* v named once and used many times: F(v)
Bind(v, F(_)) == F(v)

\* a function's outcome: a returned value or a raised exception
Ok(v) == [raised |-> FALSE, val |-> v]
Raise(e) == [raised |-> TRUE, val |-> e]

-----------------------------------------------------------------------------
(* Paths and URIs.  A path is the sequence of its components below the     *)
(* filesystem root; <<>> is the root itself.                               *)

DirNames == {"a", "b"}
FileName == "f.sql"

RECURSIVE DirsUpTo(_)
DirsUpTo(n) ==
    IF n = 0 THEN {<<>>}
    ELSE LET shorter == DirsUpTo(n - 1)
         IN shorter \cup {Append(d, c) : d \in shorter, c \in DirNames}

Dirs == DirsUpTo(MaxDepth)

\* pathlib.Path.parent: the root is its own parent
Parent(p) == IF p = <<>> THEN <<>> ELSE SubSeq(p, 1, Len(p) - 1)

\* str(path) / os.fspath(path)
RECURSIVE PathStr(_)
PathStr(p) ==
    IF p = <<>> THEN "/"
    ELSE IF Len(p) = 1 THEN "/" \o p[1]
    ELSE PathStr(Parent(p)) \o "/" \o p[Len(p)]

\* uris.from_fs_path and uris.to_fs_path (pygls)
from_fs_path(p) == [scheme |-> "file", path |-> p]
to_fs_path(uri) == uri.path

\* os.getcwd(): the directory the server process runs in
getcwd == <<"a">>
\* sys.executable
sys_executable == "python"
\* utils.is_current_interpreter
is_current_interpreter(exe) == exe = sys_executable

-----------------------------------------------------------------------------
(* Dictionaries that keep insertion order (WORKSPACE_SETTINGS).            *)

DictKeys(d) == {d[i].key : i \in 1..Len(d)}
\* mutant: the values in reverse order
M_DictValues(d) == [i \in 1..Len(d) |-> d[Len(d) + 1 - i].val]
\* list(d.values())
DictValues(d) == [i \in 1..Len(d) |-> d[i].val]
DictGet(d, k) == d[CHOOSE i \in 1..Len(d) : d[i].key = k].val
\* mutant: the entry is added whether or not the key is there
M_DictSet(d, k, v) == Append(d, [key |-> k, val |-> v])

\* d[k] = v: an existing key keeps its position, a new key goes last
DictSet(d, k, v) ==
    IF k \in DictKeys(d)
    THEN [i \in 1..Len(d) |-> IF d[i].key = k THEN [key |-> k, val |-> v] ELSE d[i]]
    ELSE Append(d, [key |-> k, val |-> v])

-----------------------------------------------------------------------------
(* Settings.                                                               *)

GlobalKeys == {"path", "interpreter", "args", "importStrategy", "showNotifications",
               "formatOnSave", "executablePath", "diagnosticSeverity", "dialect",
               "templater"}

_get_global_defaults(G) ==
    [path               |-> Get(G, "path", <<>>),
     interpreter        |-> Get(G, "interpreter", <<sys_executable>>),
     args               |-> Get(G, "args", <<>>),
     importStrategy     |-> Get(G, "importStrategy", "useBundled"),
     showNotifications  |-> Get(G, "showNotifications", "off"),
     formatOnSave       |-> Get(G, "formatOnSave", FALSE),
     executablePath     |-> Get(G, "executablePath", ""),
     diagnosticSeverity |-> Get(G, "diagnosticSeverity", "warning"),
     dialect            |-> Get(G, "dialect", NoneStr),
     templater          |-> Get(G, "templater", NoneStr)]

\* the entry written when initialize supplies no per-workspace settings
DefaultEntry(G) ==
    Merge([cwd |-> getcwd, workspaceFS |-> getcwd, workspace |-> from_fs_path(getcwd)],
          _get_global_defaults(G))

\* the entry written for one per-workspace setting
WorkspaceEntry(setting) ==
    LET key == to_fs_path(setting.workspace)
    IN Merge(Merge([cwd |-> key], setting), [workspaceFS |-> key])

RECURSIVE UpdateEach(_, _)
UpdateEach(W, settings) ==
    IF settings = <<>> THEN W
    ELSE UpdateEach(DictSet(W, to_fs_path(Head(settings).workspace),
                            WorkspaceEntry(Head(settings))),
                    Tail(settings))

\* the value of WORKSPACE_SETTINGS after _update_workspace_settings(settings)
_update_workspace_settings(W, G, settings) ==
    IF settings = <<>>
    THEN DictSet(W, getcwd, DefaultEntry(G))
    ELSE UpdateEach(W, settings)

\* the loop of _get_document_key, from the path it has reached
RECURSIVE WalkUp(_, _)
WalkUp(p, workspaces) ==
    IF p = Parent(p) THEN NonePath
    ELSE IF p \in workspaces THEN p
    ELSE WalkUp(Parent(p), workspaces)

_get_document_key(W, document) ==
    IF W # <<>>
    THEN WalkUp(document.path, {W[i].val.workspaceFS : i \in 1..Len(W)})
    ELSE NonePath

\* mutant: the document's own path is taken instead of its parent directory
M_SynthesizedSettings(G, document) ==
    Merge([cwd |-> document.path, workspaceFS |-> document.path,
           workspace |-> from_fs_path(document.path)],
          _get_global_defaults(G))

\* the record synthesized for a file outside every workspace
SynthesizedSettings(G, document) ==
    LET key == Parent(document.path)
    IN Merge([cwd |-> key, workspaceFS |-> key, workspace |-> from_fs_path(key)],
             _get_global_defaults(G))

_get_settings_by_document(W, G, document) ==
    IF document.path = NonePath
    THEN IF W = <<>> THEN Raise("IndexError") ELSE Ok(DictValues(W)[1])
    ELSE Bind(_get_document_key(W, document), LAMBDA key :
              IF key = NonePath
              THEN Ok(SynthesizedSettings(G, document))
              ELSE Ok(DictGet(W, key)))

-----------------------------------------------------------------------------
(* Documents (pygls workspace.Document): a URI, the filesystem path the    *)
(* URI maps to (None for a document without one) and the source text, a    *)
(* sequence of characters.                                                 *)

CR == "\r"
LF == "\n"

FileDoc(dir, source) ==
    [uri |-> from_fs_path(Append(dir, FileName)), path |-> Append(dir, FileName),
     source |-> source]

\* a saved file below the directory /a
DocFile == FileDoc(<<"a">>, <<"x", CR, LF, "y", CR, LF>>)
\* a notebook cell
DocNotebook ==
    [uri |-> [scheme |-> "vscode-notebook-cell", path |-> <<"a", "nb.ipynb">>],
     path |-> <<"a", "nb.ipynb">>, source |-> <<"x", LF>>]
\* an unsaved buffer: no path
DocUntitled ==
    [uri |-> [scheme |-> "untitled", path |-> <<"Untitled-1">>],
     path |-> NonePath, source |-> <<"x", LF>>]

-----------------------------------------------------------------------------
(* Text the tool writes.  stdout is empty, a JSON document (given by the   *)
(* value json.loads returns for it), text that is no JSON, or SQL (a       *)
(* sequence of characters).                                                *)

EmptyText == [kind |-> "empty"]
MalformedText == [kind |-> "malformed"]
JsonText(data) == [kind |-> "json", data |-> data]
SqlText(chars) == [kind |-> "sql", chars |-> chars]

\* bool(text)
TextTruthy(t) == t.kind # "empty"

\* JSON values
JInt(n) == [t |-> "int", v |-> n]
JStr(x) == [t |-> "str", v |-> x]
JList(items) == [t |-> "list", items |-> items]
JDict(d) == [t |-> "dict", d |-> d]

\* json.loads(content)
json_loads(content) ==
    IF content.kind = "json" THEN Ok(content.data) ELSE Raise("JSONDecodeError")

-----------------------------------------------------------------------------
(* Output translation: diagnostics.                                        *)

TOOL_DISPLAY == "SQLFluff"

\* mutant: the smaller of the two
M_Max(a, b) == IF a >= b THEN b ELSE a

Max(a, b) == IF a >= b THEN a ELSE b

\* mutant: an unknown name is taken as an error
M__get_severity_error(severity) ==
    CASE severity = "error"       -> Ok("Error")
      [] severity = "warning"     -> Ok("Warning")
      [] severity = "information" -> Ok("Information")
      [] severity = "hint"        -> Ok("Hint")
      [] OTHER                    -> Ok("Error")

\* mutant: an unknown name is taken as a warning
M__get_severity(severity) ==
    CASE severity = "error"       -> Ok("Error")
      [] severity = "warning"     -> Ok("Warning")
      [] severity = "information" -> Ok("Information")
      [] severity = "hint"        -> Ok("Hint")
      [] OTHER                    -> Ok("Warning")

_get_severity(severity) ==
    CASE severity = "error"       -> Ok("Error")
      [] severity = "warning"     -> Ok("Warning")
      [] severity = "information" -> Ok("Information")
      [] severity = "hint"        -> Ok("Hint")
      [] OTHER                    -> Raise("ValueError")

\* v.get(k, default) on a violation entry; an entry that is no object has no get
VGet(v, k, default) == Get(v.d, k, default)

\* mutant: a severity the violation entry names is taken
M_Diagnostic(v, severity) ==
    IF v.t # "dict" THEN Raise("AttributeError")
    ELSE
    LET raw_line == VGet(v, "start_line_no", VGet(v, "line_no", JInt(1)))
        raw_col  == VGet(v, "start_line_pos", VGet(v, "line_pos", JInt(1)))
    IN  IF raw_line.t # "int" \/ raw_col.t # "int" THEN Raise("TypeError")
        ELSE
        LET line == Max(raw_line.v - 1, 0)
            col  == Max(raw_col.v - 1, 0)
            sev  == _get_severity(VGet(v, "severity", JStr(severity)).v)
        IN  IF sev.raised THEN sev
            ELSE Ok([range    |-> [start |-> [line |-> line, character |-> col],
                                   end   |-> [line |-> line, character |-> col + 1]],
                     message  |-> VGet(v, "description", JStr("")),
                     severity |-> sev.val,
                     code     |-> VGet(v, "code", JStr("")),
                     source   |-> TOOL_DISPLAY])

\* the body of the try block for one violation: the diagnostic, or the exception
Diagnostic(v, severity) ==
    IF v.t # "dict" THEN Raise("AttributeError")
    ELSE
    LET raw_line == VGet(v, "start_line_no", VGet(v, "line_no", JInt(1)))
        raw_col  == VGet(v, "start_line_pos", VGet(v, "line_pos", JInt(1)))
    IN  IF raw_line.t # "int" \/ raw_col.t # "int" THEN Raise("TypeError")
        ELSE
        LET line == Max(raw_line.v - 1, 0)
            col  == Max(raw_col.v - 1, 0)
            sev  == _get_severity(severity)
        IN  IF sev.raised THEN sev
            ELSE Ok([range    |-> [start |-> [line |-> line, character |-> col],
                                   end   |-> [line |-> line, character |-> col + 1]],
                     message  |-> VGet(v, "description", JStr("")),
                     severity |-> sev.val,
                     code     |-> VGet(v, "code", JStr("")),
                     source   |-> TOOL_DISPLAY])

\* mutant: the loop ends at the first entry whose diagnostic raises
RECURSIVE M_Violations(_, _)
M_Violations(violations, severity) ==
    IF violations = <<>> THEN <<>>
    ELSE Bind(Diagnostic(Head(violations), severity), LAMBDA d :
              IF d.raised THEN <<>>
              ELSE <<d.val>> \o M_Violations(Tail(violations), severity))

\* the inner loop: an entry whose diagnostic raises is logged and skipped
RECURSIVE Violations(_, _)
Violations(violations, severity) ==
    IF violations = <<>> THEN <<>>
    ELSE Bind(Diagnostic(Head(violations), severity), LAMBDA d :
              (IF d.raised THEN <<>> ELSE <<d.val>>)
              \o Violations(Tail(violations), severity))

\* the outer loop; file_result.get raises for a report entry that is no object,
\* and so does iterating violations that are a number (the elements of a string
\* or the keys of an object are iterated, and each is skipped as an entry
\* without get)
RECURSIVE FileResults(_, _)
FileResults(file_results, severity) ==
    IF file_results = <<>> THEN Ok(<<>>)
    ELSE LET file_result == Head(file_results)
         IN IF file_result.t # "dict" THEN Raise("AttributeError")
            ELSE LET violations == Get(file_result.d, "violations", JList(<<>>))
                 IN IF violations.t = "int" THEN Raise("TypeError")
                    ELSE Bind(FileResults(Tail(file_results), severity), LAMBDA rest :
                              IF rest.raised THEN rest
                              ELSE Ok((IF violations.t = "list"
                                       THEN Violations(violations.items, severity)
                                       ELSE <<>>) \o rest.val))

\* mutant: the error of json.loads is not caught
M__parse_sqlfluff_output(content, severity) ==
    Bind(json_loads(content), LAMBDA data :
         IF data.raised THEN data
         ELSE FileResults(IF data.val.t = "list" THEN data.val.items ELSE <<data.val>>,
                          severity))

\* lines 64-97
_parse_sqlfluff_output(content, severity) ==
    Bind(json_loads(content), LAMBDA data :
         IF data.raised THEN Ok(<<>>)
         ELSE FileResults(IF data.val.t = "list" THEN data.val.items ELSE <<data.val>>,
                          severity))

-----------------------------------------------------------------------------
(* Output translation: the formatting edit.                                *)

IsBreak(c) == c \in {CR, LF}

\* the first element of text.splitlines(keepends=True); <<>> when there is none
FirstLine(text) ==
    IF text = <<>> THEN <<>>
    ELSE LET brk == {i \in 1..Len(text) : IsBreak(text[i])}
         IN IF brk = {} THEN text
            ELSE LET i == CHOOSE j \in brk : \A k \in brk : j <= k
                 IN IF text[i] = CR /\ i < Len(text) /\ text[i + 1] = LF
                    THEN SubSeq(text, 1, i + 1)
                    ELSE SubSeq(text, 1, i)

\* len(text.splitlines()): the number of lines
RECURSIVE CountLines(_)
CountLines(text) ==
    IF text = <<>> THEN 0
    ELSE 1 + CountLines(SubSeq(text, Len(FirstLine(text)) + 1, Len(text)))

\* _get_line_endings(text.splitlines(keepends=True)): lines[0] raises on no lines
_get_line_endings(text) ==
    LET first == FirstLine(text)
    IN IF first = <<>> THEN <<>>
       ELSE IF Len(first) >= 2 /\ SubSeq(first, Len(first) - 1, Len(first)) = <<CR, LF>>
            THEN <<CR, LF>>
            ELSE <<LF>>

\* text.replace(old, new), old not empty
RECURSIVE Replace(_, _, _)
Replace(text, old, new) ==
    IF Len(text) < Len(old) THEN text
    ELSE IF SubSeq(text, 1, Len(old)) = old
         THEN new \o Replace(SubSeq(text, Len(old) + 1, Len(text)), old, new)
         ELSE <<Head(text)>> \o Replace(Tail(text), old, new)

\* <<>> stands for the None _get_line_endings returns
_match_line_endings(document, text) ==
    LET expected == _get_line_endings(document.source)
        actual   == _get_line_endings(text)
    IN IF actual = expected \/ actual = <<>> \/ expected = <<>>
       THEN text
       ELSE Replace(text, actual, expected)

TextEdit(document, new_source) ==
    [range    |-> [start |-> [line |-> 0, character |-> 0],
                   end   |-> [line |-> CountLines(document.source), character |-> 0]],
     new_text |-> new_source]

-----------------------------------------------------------------------------
(* Running the tool.  The tool itself (utils.run_path, run_over_json_rpc,  *)
(* utils.run_module) is outside the server: what one invocation does is an *)
(* input, a ToolOutcome: it raises, or it returns stdout, stderr and, over *)
(* RPC, an exception description (None when there is none).                *)

TOOL_MODULE == "sqlfluff"
TOOL_ARGS == <<>>

RunResult(stdout, stderr) == [some |-> TRUE, stdout |-> stdout, stderr |-> stderr]
\* the None returned for a skipped document
NoResult == [some |-> FALSE, stdout |-> EmptyText, stderr |-> ""]

ToolRaises == [raised |-> TRUE, stdout |-> EmptyText, stderr |-> "", exception |-> NoneStr]

ToolOutcomes(strategy, stdouts) ==
    {ToolRaises} \cup
    [raised : {FALSE}, stdout : stdouts, stderr : {"", "error output"},
     exception : IF strategy = "rpc" THEN {NoneStr, "RPC exception"} ELSE {NoneStr}]

\* str(document.uri).startswith("vscode-notebook-cell")
IsNotebookCell(document) == document.uri.scheme = "vscode-notebook-cell"

\* what utils.is_stdlib_file(document.path) can do: it cannot take None
StdlibOutcomes(document) ==
    IF document.path = NonePath THEN {"raise"} ELSE {"no", "yes"}

\* mutant: a different interpreter is looked at before the path setting
M_Strategy(settings) ==
    IF settings.interpreter # <<>> /\ ~is_current_interpreter(settings.interpreter[1])
    THEN "rpc"
    ELSE IF settings.path # <<>> THEN "path"
         ELSE "module"

\* lines 370-386: the strategy of one attempt
Strategy(settings) ==
    IF settings.path # <<>> THEN "path"
    ELSE IF settings.interpreter # <<>> /\ ~is_current_interpreter(settings.interpreter[1])
         THEN "rpc"
         ELSE "module"

\* lines 372-395: the command line
Argv(settings, document, use_stdin, extra_args) ==
    (IF settings.path # <<>> THEN settings.path ELSE <<TOOL_MODULE>>)
    \o TOOL_ARGS \o settings.args \o extra_args
    \o (IF use_stdin
        THEN <<"--stdin-filename", PathStr(document.path), "-">>
        ELSE <<PathStr(document.path)>>)

\* the source= argument of the tool call
SourceSent(strategy, document) ==
    IF strategy = "path" THEN Replace(document.source, <<CR, LF>>, <<LF>>)
    ELSE document.source

\* lines 397-453: the result of the strategy's block, given what the tool did
ToolResult(strategy, o) ==
    IF o.raised THEN Raise("Exception")
    ELSE Ok(RunResult(o.stdout, o.stderr))

\* mutant: empty stdout is not taken as a failure
M_NeedsFallback(use_stdin, result) ==
    use_stdin /\ result.some /\ result.stderr # ""

\* line 456: does this attempt's result call for the file-input fallback
NeedsFallback(use_stdin, result) ==
    use_stdin /\ result.some /\ (result.stderr # "" \/ ~TextTruthy(result.stdout))

\* the object _get_settings_by_document returns: the stored entry (its place in
\* the map), or 0 for a record built by the call
SettingsObject(W, document) ==
    IF document.path = NonePath
    THEN (IF W = <<>> THEN 0 ELSE 1)
    ELSE IF _get_document_key(W, document) = NonePath THEN 0
         ELSE CHOOSE i \in 1..Len(W) : W[i].key = _get_document_key(W, document)

\* mutant: no copy is taken
M_deepcopy(obj) == obj

\* line 365: copy.deepcopy(obj) is an object of its own
deepcopy(obj) == 0

\* lines 375 and 388-395: in path mode argv is the list settings["path"] itself,
\* which += extends in place; otherwise argv is a list of its own
AfterArgv(settings, argv) ==
    IF settings.path # <<>> THEN [settings EXCEPT !.path = argv] ELSE settings

\* the settings map after the in-place changes of a handler's invocations: they
\* reach a stored entry when the settings object in use is that entry
RECURSIVE Written(_, _, _)
Written(W, document, attempts) ==
    IF attempts = <<>> THEN W
    ELSE Written(IF deepcopy(SettingsObject(W, document)) = 0 THEN W
                 ELSE [W EXCEPT ![deepcopy(SettingsObject(W, document))].val =
                                    AfterArgv(Head(attempts).settings,
                                              Head(attempts).argv)],
                 document, Tail(attempts))

\* lines 367-453: the invocation, with the settings the attempt resolved
Invoke(settings, document, use_stdin, extra_args, o) ==
    [raised   |-> ToolResult(Strategy(settings), o).raised,
     result   |-> IF ToolResult(Strategy(settings), o).raised THEN NoResult
                  ELSE ToolResult(Strategy(settings), o).val,
     attempts |-> <<[use_stdin |-> use_stdin,
                     strategy  |-> Strategy(settings),
                     settings  |-> settings,
                     argv      |-> Argv(settings, document, use_stdin, extra_args),
                     cwd       |-> settings.cwd,
                     source    |-> SourceSent(Strategy(settings), document),
                     outcome   |-> o]>>]

\* lines 350-453: one pass through _run_tool_on_document up to the fallback test.
\* attempts: the tool invocations made, <<>> when the pass ends before one.
RunOnce(W, G, document, use_stdin, extra_args, std, o) ==
    IF IsNotebookCell(document)
    THEN [raised |-> FALSE, result |-> NoResult, attempts |-> <<>>]
    ELSE IF std = "raise"
    THEN [raised |-> TRUE, result |-> NoResult, attempts |-> <<>>]
    ELSE IF std = "yes"
    THEN [raised |-> FALSE, result |-> NoResult, attempts |-> <<>>]
    ELSE Bind(_get_settings_by_document(W, G, document), LAMBDA found :
         IF found.raised
         THEN [raised |-> TRUE, result |-> NoResult, attempts |-> <<>>]
         ELSE Invoke(found.val, document, use_stdin, extra_args, o))

\* os: what the tool does on this call's invocations, in order
RECURSIVE _run_tool_on_document(_, _, _, _, _, _, _)
_run_tool_on_document(W, G, document, use_stdin, extra_args, std, os) ==
    Bind(RunOnce(W, G, document, use_stdin, extra_args, std, Head(os)), LAMBDA first :
    IF first.raised THEN first
    ELSE IF NeedsFallback(use_stdin, first.result)
    THEN Bind(_run_tool_on_document(W, G, document, FALSE, extra_args, std, Tail(os)),
              LAMBDA again : [again EXCEPT !.attempts = first.attempts \o @])
    ELSE first)

-----------------------------------------------------------------------------
(* The helpers behind the handlers.  Each returns what the helper returns  *)
(* (or that it raised) and the tool invocations it made.                   *)

\* dialect and templater options appended to the sub-command's arguments
ToolOptions(settings) ==
    (IF Truthy(Get(settings, "dialect", NoneStr))
     THEN <<"--dialect", Get(settings, "dialect", NoneStr)>> ELSE <<>>)
    \o (IF Truthy(Get(settings, "templater", NoneStr))
        THEN <<"--templater", Get(settings, "templater", NoneStr)>> ELSE <<>>)

\* one call of _run_tool_on_document, as the helpers record it
Call(use_stdin, run) ==
    [use_stdin |-> use_stdin, raised |-> run.raised, result |-> run.result,
     attempts |-> run.attempts]

\* lines 130-133: the stdin call, and the file call made when it raises
LintCalls(W, G, document, args, std, os) ==
    Bind(_run_tool_on_document(W, G, document, TRUE, args, std, os), LAMBDA stdin :
    IF stdin.raised
    THEN Bind(_run_tool_on_document(W, G, document, FALSE, args, std,
                                    SubSeq(os, Len(stdin.attempts) + 1, Len(os))),
              LAMBDA file :
              [raised   |-> file.raised,
               result   |-> file.result,
               attempts |-> stdin.attempts \o file.attempts,
               calls    |-> <<Call(TRUE, stdin), Call(FALSE, file)>>])
    ELSE [raised   |-> FALSE,
          result   |-> stdin.result,
          attempts |-> stdin.attempts,
          calls    |-> <<Call(TRUE, stdin)>>])

\* lines 134-138: the diagnostics of the result the calls ended with
LintResult(call, severity) ==
    IF call.raised
    THEN [raised |-> TRUE, diagnostics |-> <<>>, attempts |-> call.attempts,
          calls |-> call.calls]
    ELSE IF call.result.some /\ TextTruthy(call.result.stdout)
    THEN Bind(_parse_sqlfluff_output(call.result.stdout, severity), LAMBDA parsed :
              [raised      |-> parsed.raised,
               diagnostics |-> IF parsed.raised THEN <<>> ELSE parsed.val,
               attempts    |-> call.attempts,
               calls       |-> call.calls])
    ELSE [raised |-> FALSE, diagnostics |-> <<>>, attempts |-> call.attempts,
          calls |-> call.calls]

\* lines 119-138: the body of the try block of _linting_helper
LintBody(W, G, document, std, os) ==
    Bind(_get_settings_by_document(W, G, document), LAMBDA found :
    IF found.raised
    THEN [raised |-> TRUE, diagnostics |-> <<>>, attempts |-> <<>>, calls |-> <<>>]
    ELSE Bind(LintCalls(W, G, document,
                        <<"lint", "-f", "json", "--disable-progress-bar">>
                        \o ToolOptions(found.val),
                        std, os),
              LAMBDA call :
              LintResult(call, Get(found.val, "diagnosticSeverity", "warning"))))

\* mutant: the exception of the body is not caught
M_Guarded(body) ==
    [raised      |-> body.raised,
     caught      |-> FALSE,
     diagnostics |-> IF body.raised THEN <<>> ELSE body.diagnostics,
     attempts    |-> body.attempts,
     calls       |-> body.calls]

\* lines 139-141: an exception of the body is logged and [] returned
Guarded(body) ==
    [raised      |-> FALSE,
     caught      |-> body.raised,
     diagnostics |-> IF body.raised THEN <<>> ELSE body.diagnostics,
     attempts    |-> body.attempts,
     calls       |-> body.calls]

\* lines 116-141
_linting_helper(W, G, document, std, os) ==
    Guarded(LintBody(W, G, document, std, os))

\* line 167: the one call _formatting_helper makes
FormatCalls(W, G, document, fix_args, std, os) ==
    Bind(_run_tool_on_document(W, G, document, TRUE, fix_args, std, os), LAMBDA stdin :
         [raised   |-> stdin.raised,
          result   |-> stdin.result,
          attempts |-> stdin.attempts,
          calls    |-> <<Call(TRUE, stdin)>>])

\* lines 168-182: the edit for the result the call ended with; edits = <<>> stands
\* for the None returned when there is no edit
FormatResult(document, call) ==
    IF call.raised
    THEN [raised |-> FALSE, caught |-> TRUE, edits |-> <<>>,
          attempts |-> call.attempts, calls |-> call.calls]
    ELSE IF call.result.some /\ TextTruthy(call.result.stdout)
    THEN [raised |-> FALSE, caught |-> FALSE,
          edits  |-> <<TextEdit(document,
                                _match_line_endings(document, call.result.stdout.chars))>>,
          attempts |-> call.attempts, calls |-> call.calls]
    ELSE [raised |-> FALSE, caught |-> FALSE, edits |-> <<>>,
          attempts |-> call.attempts, calls |-> call.calls]

\* lines 153-182
_formatting_helper(W, G, document, std, os) ==
    Bind(_get_settings_by_document(W, G, document), LAMBDA found :
    IF found.raised
    THEN [raised |-> FALSE, caught |-> TRUE, edits |-> <<>>, attempts |-> <<>>,
          calls |-> <<>>]
    ELSE FormatResult(document,
                      FormatCalls(W, G, document,
                                  <<"fix", "--disable-progress-bar", "--quiet",
                                    "--FIX-EVEN-UNPARSABLE">> \o ToolOptions(found.val),
                                  std, os)))

-----------------------------------------------------------------------------
(* Inputs.                                                                 *)

EmptyDict == [k \in {} |-> ""]

\* one per-workspace record of the initialization options
Setting(root, path, interpreter, severity) ==
    [workspace          |-> from_fs_path(root),
     path               |-> path,
     interpreter        |-> interpreter,
     args               |-> <<>>,
     importStrategy     |-> "useBundled",
     showNotifications  |-> "off",
     formatOnSave       |-> FALSE,
     executablePath     |-> "",
     diagnosticSeverity |-> severity,
     dialect            |-> "ansi",
     templater          |-> NoneStr]

ToolPaths == {<<>>, <<"/opt/sqlfluff">>}
Interpreters == {<<>>, <<sys_executable>>, <<"/venv/bin/python">>}

\* initialization options of the handler runs: no workspace, or the workspace /a
\* under every combination of path and interpreter, or the workspace /a with a
\* severity name that is none of the four
HandlerPayloads ==
    {[globalSettings |-> EmptyDict, settings |-> <<>>]}
    \cup {[globalSettings |-> EmptyDict,
           settings |-> <<Setting(<<"a">>, p, i, "warning")>>] :
          p \in ToolPaths, i \in Interpreters}
    \cup {[globalSettings |-> EmptyDict,
           settings |-> <<Setting(<<"a">>, <<>>, <<sys_executable>>, "critical")>>]}

HandlerDocs == {DocFile, DocNotebook, DocUntitled}

Uris == {d.uri : d \in HandlerDocs}

\* a lint report: one file with one violation at line 3, column 5
Violation(line, col) ==
    JDict([start_line_no |-> JInt(line), start_line_pos |-> JInt(col),
           code |-> JStr("LT01"), description |-> JStr("Expected single space")])
ReportText ==
    JsonText(JList(<<JDict([filepath |-> JStr("f.sql"),
                            violations |-> JList(<<Violation(3, 5)>>)])>>))

\* a lint report of two files, with three violations
LongReportText ==
    JsonText(JList(<<JDict([filepath |-> JStr("f.sql"),
                            violations |-> JList(<<Violation(3, 5), Violation(1, 1)>>)]),
                     JDict([filepath |-> JStr("g.sql"),
                            violations |-> JList(<<Violation(2, 7)>>)])>>))

\* what the tool may print for a lint: nothing, a report of one violation or of
\* three, or JSON that is no report
LintStdouts == {EmptyText, ReportText, LongReportText, JsonText(JInt(0))}
\* what the tool may print for a fix: nothing, or the fixed SQL
FormatStdouts == {EmptyText, SqlText(<<"x", LF, "z", LF>>)}

\* initialization options of the settings runs: global settings and no workspace,
\* or no global settings and a workspace anywhere in the directory tree, or the
\* two workspaces /a and /b at once
GlobalOptions == {EmptyDict, [diagnosticSeverity |-> "error", path |-> <<"/opt/sqlfluff">>]}
SettingsPayloads ==
    {[globalSettings |-> g, settings |-> <<>>] : g \in GlobalOptions}
    \cup {[globalSettings |-> EmptyDict,
           settings |-> <<Setting(d, <<>>, <<sys_executable>>, "hint")>>] :
          d \in Dirs}
    \cup {[globalSettings |-> EmptyDict,
           settings |-> <<Setting(<<"a">>, <<>>, <<sys_executable>>, "hint"),
                          Setting(<<"b">>, <<>>, <<sys_executable>>, "hint")>>]}

\* a file in every directory, and the unsaved buffer
SettingsDocs == {FileDoc(d, <<"x", LF>>) : d \in Dirs} \cup {DocUntitled}

\* violation entries: positions given by the start fields, by the generic fields
\* (in an entry that names a severity of its own), by both or by none; a position
\* that is no number; an entry that is no object
Keyword ==
    JDict([line_no |-> JInt(2), line_pos |-> JInt(1), code |-> JStr("CP01"),
           description |-> JStr("Keywords must be upper case"),
           severity |-> JStr("error")])
Entries ==
    {Violation(3, 5),
     Keyword,
     JDict([start_line_no |-> JInt(1), start_line_pos |-> JInt(4),
            line_no |-> JInt(7), line_pos |-> JInt(9), code |-> JStr("AL01")]),
     JDict([code |-> JStr("PRS")]),
     JDict([start_line_no |-> JStr("3"), start_line_pos |-> JInt(5),
            code |-> JStr("LT02")]),
     JStr("violation")}

RECURSIVE SeqsUpTo(_, _)
SeqsUpTo(S, n) ==
    IF n = 0 THEN {<<>>}
    ELSE SeqsUpTo(S, n - 1)
         \cup {Append(q, e) : q \in SeqsUpTo(S, n - 1), e \in S}

FileReport(entries) == JDict([filepath |-> JStr("f.sql"), violations |-> JList(entries)])

\* tool outputs: no JSON, one report object, a list of one report, a list of two
\* reports, an object without violations, JSON that is no report
Contents ==
    {MalformedText, JsonText(JInt(0)), JsonText(JDict([filepath |-> JStr("f.sql")]))}
    \cup {JsonText(FileReport(q)) : q \in SeqsUpTo(Entries, MaxViolations)}
    \cup {JsonText(JList(<<FileReport(q)>>)) : q \in SeqsUpTo(Entries, MaxViolations)}
    \cup {JsonText(JList(<<FileReport(<<e>>), FileReport(q)>>)) :
          e \in Entries, q \in SeqsUpTo(Entries, 1)}

Severities == {"error", "warning", "information", "hint", "critical", "Error", ""}

\* the oracle entry of an invocation that is never made
Unused == ToolRaises

\* the strategy the document's attempts use ("module" when there are none)
StrategyFor(W, G, document) ==
    LET found == _get_settings_by_document(W, G, document)
    IN IF found.raised THEN "module" ELSE Strategy(found.val)

-----------------------------------------------------------------------------
(* The state machine.                                                      *)

NoPublication == [any |-> FALSE, diagnostics |-> <<>>]

Init ==
    /\ WORKSPACE_SETTINGS = <<>>
    /\ GLOBAL_SETTINGS = EmptyDict
    /\ published = [u \in Uris |-> NoPublication]
    /\ closed = [u \in Uris |-> FALSE]
    /\ req = [kind |-> "none", pending |-> FALSE]

\* a handler starts when none is running: the server handles one message at a time
Idle == ~req.pending

\* LSP initialize: lines 238-255
initialize(payloads) ==
    /\ Idle
    /\ \E p \in payloads :
        LET G == Merge(GLOBAL_SETTINGS, p.globalSettings)
            W == _update_workspace_settings(WORKSPACE_SETTINGS, G, p.settings)
        IN /\ Len(W) <= MaxWorkspaces
           /\ GLOBAL_SETTINGS' = G
           /\ WORKSPACE_SETTINGS' = W
           /\ req' = [kind |-> "initialize", pending |-> FALSE, payload |-> p]
           /\ UNCHANGED <<published, closed>>

\* what the tool does on the invocations a handler makes: the outcomes known so
\* far, then (for the helper to run on) outcomes that are not looked at
Oracle(known) == known \o <<Unused, Unused, Unused>>

\* the handler of req.kind run on the outcomes known so far
Helper(kind, document, std, known) ==
    IF kind = "formatting"
    THEN _formatting_helper(WORKSPACE_SETTINGS, GLOBAL_SETTINGS, document, std,
                            Oracle(known))
    ELSE _linting_helper(WORKSPACE_SETTINGS, GLOBAL_SETTINGS, document, std,
                         Oracle(known))

\* the handler has returned (or raised): lines 207-208, 215-216, 232
Finish(kind, document, std, run) ==
    LET publishes == kind # "formatting" /\ ~run.raised
    IN /\ req' = [kind         |-> kind,
                  document     |-> document,
                  pending      |-> FALSE,
                  std          |-> std,
                  attempts     |-> run.attempts,
                  calls        |-> run.calls,
                  caught       |-> run.caught,
                  propagated   |-> run.raised,
                  returned     |-> IF kind = "formatting" THEN run.edits
                                   ELSE run.diagnostics,
                  publications |-> IF publishes
                                   THEN <<[uri |-> document.uri,
                                           diagnostics |-> run.diagnostics]>>
                                   ELSE <<>>]
       /\ published' = IF publishes
                       THEN [published EXCEPT ![document.uri] =
                                 [any |-> TRUE, diagnostics |-> run.diagnostics]]
                       ELSE published
       /\ closed' = IF kind = "formatting" THEN closed
                    ELSE [closed EXCEPT ![document.uri] = FALSE]
       /\ WORKSPACE_SETTINGS' = Written(WORKSPACE_SETTINGS, document, run.attempts)

\* the handler runs as far as the outcomes known take it: it has finished, or it
\* waits for the tool to return from one more invocation
Advance(kind, document, std, known) ==
    \E run \in {Helper(kind, document, std, known)} :
       IF Len(run.attempts) <= Len(known)
       THEN Finish(kind, document, std, run)
       ELSE /\ req' = [kind |-> kind, document |-> document, pending |-> TRUE,
                       std |-> std, known |-> known]
            /\ UNCHANGED <<WORKSPACE_SETTINGS, published, closed>>

\* lines 203-208
did_open(docs) ==
    /\ Idle
    /\ \E document \in docs :
       \E std \in StdlibOutcomes(document) :
          Advance("did_open", document, std, <<>>)
    /\ UNCHANGED GLOBAL_SETTINGS

\* lines 211-216
did_save(docs) ==
    /\ Idle
    /\ \E document \in docs :
       \E std \in StdlibOutcomes(document) :
          Advance("did_save", document, std, <<>>)
    /\ UNCHANGED GLOBAL_SETTINGS

\* lines 228-232
formatting(docs) ==
    /\ Idle
    /\ \E document \in docs :
       \E std \in StdlibOutcomes(document) :
          Advance("formatting", document, std, <<>>)
    /\ UNCHANGED GLOBAL_SETTINGS

\* mutant: closing publishes nothing
M_did_close(docs) ==
    /\ Idle
    /\ \E document \in docs :
        /\ req' = [kind |-> "did_close", document |-> document, pending |-> FALSE,
                   attempts |-> <<>>, propagated |-> FALSE, publications |-> <<>>]
        /\ closed' = [closed EXCEPT ![document.uri] = TRUE]
    /\ UNCHANGED <<WORKSPACE_SETTINGS, GLOBAL_SETTINGS, published>>

\* lines 219-222
did_close(docs) ==
    /\ Idle
    /\ \E document \in docs :
        /\ req' = [kind |-> "did_close", document |-> document, pending |-> FALSE,
                   attempts |-> <<>>, propagated |-> FALSE,
                   publications |-> <<[uri |-> document.uri, diagnostics |-> <<>>]>>]
        /\ published' = [published EXCEPT ![document.uri] =
                             [any |-> TRUE, diagnostics |-> <<>>]]
        /\ closed' = [closed EXCEPT ![document.uri] = TRUE]
    /\ UNCHANGED <<WORKSPACE_SETTINGS, GLOBAL_SETTINGS>>

\* the tool invocation the running handler waits on returns or raises, and the
\* handler goes on
tool_returns ==
    /\ req.pending
    /\ \E o \in ToolOutcomes(StrategyFor(WORKSPACE_SETTINGS, GLOBAL_SETTINGS, req.document),
                             IF req.kind = "formatting" THEN FormatStdouts
                             ELSE LintStdouts) :
          Advance(req.kind, req.document, req.std, Append(req.known, o))
    /\ UNCHANGED GLOBAL_SETTINGS

\* _get_settings_by_document applied to a document
resolve(docs) ==
    /\ Idle
    /\ \E document \in docs :
          req' = [kind |-> "resolve", pending |-> FALSE, document |-> document,
                  out |-> _get_settings_by_document(WORKSPACE_SETTINGS, GLOBAL_SETTINGS,
                                                    document)]
    /\ UNCHANGED <<WORKSPACE_SETTINGS, GLOBAL_SETTINGS, published, closed>>

\* _get_severity and _parse_sqlfluff_output applied to the input drawn
parse ==
    /\ req.kind = "input"
    /\ req' = [kind |-> "parse", pending |-> FALSE, content |-> req.content,
               severity |-> req.severity,
               mapped |-> _get_severity(req.severity),
               out |-> _parse_sqlfluff_output(req.content, req.severity)]
    /\ UNCHANGED <<WORKSPACE_SETTINGS, GLOBAL_SETTINGS, published, closed>>

Next ==
    \/ initialize(HandlerPayloads)
    \/ did_open(HandlerDocs)
    \/ did_save(HandlerDocs)
    \/ did_close(HandlerDocs)
    \/ formatting(HandlerDocs)
    \/ tool_returns

Spec == Init /\ [][Next]_vars

\* settings only: any sequence of initializations, and resolution of documents
\* anywhere in the directory tree
NextSettings ==
    \/ initialize(SettingsPayloads)
    \/ resolve(SettingsDocs)

SpecSettings == Init /\ [][NextSettings]_vars

\* output translation only: a tool output and a configured severity are drawn,
\* and translated
InitParse ==
    /\ WORKSPACE_SETTINGS = <<>>
    /\ GLOBAL_SETTINGS = EmptyDict
    /\ published = [u \in Uris |-> NoPublication]
    /\ closed = [u \in Uris |-> FALSE]
    /\ req \in [kind : {"input"}, pending : {FALSE}, content : Contents,
                severity : Severities]

NextParse == parse

SpecParse == InitParse /\ [][NextParse]_vars

\* texts of the line-ending runs: every sequence of a letter and the two line
\* break characters
Texts == SeqsUpTo({"x", CR, LF}, MaxText)

\* _match_line_endings applied to the document source and tool output drawn
match ==
    /\ req.kind = "texts"
    /\ req' = [kind |-> "match", pending |-> FALSE, source |-> req.source,
               text |-> req.text,
               expected |-> _get_line_endings(req.source),
               actual |-> _get_line_endings(req.text),
               out |-> _match_line_endings([source |-> req.source], req.text)]
    /\ UNCHANGED <<WORKSPACE_SETTINGS, GLOBAL_SETTINGS, published, closed>>

\* line endings only: a document source and a tool output are drawn, and matched
InitEndings ==
    /\ WORKSPACE_SETTINGS = <<>>
    /\ GLOBAL_SETTINGS = EmptyDict
    /\ published = [u \in Uris |-> NoPublication]
    /\ closed = [u \in Uris |-> FALSE]
    /\ req \in [kind : {"texts"}, pending : {FALSE}, source : Texts, text : Texts]

NextEndings == match

SpecEndings == InitEndings /\ [][NextEndings]_vars

-----------------------------------------------------------------------------
(* Properties.                                                             *)

\* a lint or format request whose handler has returned
Finished == req.kind \in {"did_open", "did_save", "formatting"} /\ ~req.pending

\* the handler of a lint request has returned
Linted == req.kind \in {"did_open", "did_save"} /\ ~req.pending

\* the invocation returned a result with error output or without output
Failing(o) == ~o.raised /\ (o.stderr # "" \/ o.stdout = EmptyText)

(* C1: in every call of _run_tool_on_document, a stdin-mode invocation that *)
(* returns a result with non-empty stderr or empty stdout is followed by    *)
(* exactly one file-mode invocation, whose result is what the call returns  *)
(* (and whose exception is what the call raises); a file-mode call makes at *)
(* most one invocation.                                                     *)
C1_FallbackOnce ==
    Finished =>
        \A i \in 1..Len(req.calls) :
            LET call == req.calls[i]
            IN /\ ~call.use_stdin => Len(call.attempts) <= 1
               /\ (/\ call.use_stdin
                   /\ call.attempts # <<>>
                   /\ Failing(call.attempts[1].outcome))
                  => /\ call.attempts[1].use_stdin
                     /\ Len(call.attempts) = 2
                     /\ ~call.attempts[2].use_stdin
                     /\ call.raised = call.attempts[2].outcome.raised
                     /\ ~call.raised =>
                            call.result = RunResult(call.attempts[2].outcome.stdout,
                                                    call.attempts[2].outcome.stderr)

\* a call whose stdin invocation printed nothing and whose file invocation also
\* failed, with error output: that second result is returned
C1_Witness ==
    /\ Finished
    /\ \E i \in 1..Len(req.calls) :
          /\ req.calls[i].use_stdin
          /\ Len(req.calls[i].attempts) = 2
          /\ req.calls[i].attempts[1].outcome.stdout = EmptyText
          /\ req.calls[i].attempts[1].outcome.stderr = ""
          /\ ~req.calls[i].attempts[1].outcome.raised
          /\ Failing(req.calls[i].attempts[2].outcome)
          /\ req.calls[i].result.stderr # ""

(* C2: a lint or format request invokes the tool at most twice, first in    *)
(* stdin mode and then at most once in file mode.                           *)
C2_AtMostTwoInvocations ==
    Finished =>
        /\ Len(req.attempts) <= 2
        /\ req.attempts # <<>> => req.attempts[1].use_stdin
        /\ Len(req.attempts) = 2 => ~req.attempts[2].use_stdin

(* C3: in lint and in format requests alike, a stdin-mode invocation that   *)
(* raises is followed by a file-mode invocation.                            *)
C3_FallbackOnException ==
    (/\ Finished
     /\ req.attempts # <<>>
     /\ req.attempts[1].use_stdin
     /\ req.attempts[1].outcome.raised)
    => /\ Len(req.attempts) >= 2
       /\ ~req.attempts[2].use_stdin

(* C4: every invocation uses the one strategy the fixed priority gives for  *)
(* the settings it resolved: the executable of `path` when path is set,     *)
(* whatever the interpreter; else RPC iff an interpreter is set and is not  *)
(* the current one; else the module in-process.                             *)
C4_StrategyPriority ==
    Finished =>
        \A i \in 1..Len(req.attempts) :
            LET a == req.attempts[i]
                other == /\ a.settings.interpreter # <<>>
                         /\ a.settings.interpreter[1] # sys_executable
            IN /\ a.strategy \in {"path", "rpc", "module"}
               /\ a.settings.path # <<>> =>
                      a.strategy = "path" /\ Head(a.argv) = Head(a.settings.path)
               /\ a.settings.path = <<>> =>
                      /\ Head(a.argv) = TOOL_MODULE
                      /\ a.strategy = "rpc" <=> other
                      /\ a.strategy = "module" <=> ~other

\* an invocation with both a path and a different interpreter configured
C4_Witness ==
    /\ Finished
    /\ \E i \in 1..Len(req.attempts) :
          /\ req.attempts[i].settings.path # <<>>
          /\ req.attempts[i].settings.interpreter = <<"/venv/bin/python">>
          /\ req.attempts[i].strategy = "path"

(* C8: a did_open or did_save never ends in an error: _linting_helper       *)
(* returns a list, empty when anything failed, and exactly that list is     *)
(* published, once, for the document's URI.                                 *)
C8_LintNeverPropagates ==
    Linted =>
        /\ ~req.propagated
        /\ req.caught => req.returned = <<>>
        /\ req.publications = <<[uri |-> req.document.uri, diagnostics |-> req.returned]>>
        /\ published[req.document.uri] = [any |-> TRUE, diagnostics |-> req.returned]

\* a lint whose three invocations all raised
C8_Witness ==
    /\ Linted
    /\ req.caught
    /\ Len(req.attempts) = 3
    /\ req.attempts[3].outcome.raised
    /\ req.publications = <<[uri |-> req.document.uri, diagnostics |-> <<>>]>>

(* C9: did_close publishes the empty sequence for the URI without invoking  *)
(* the tool, so a URI whose last document event is a close has the empty    *)
(* sequence as its latest publication.                                      *)
C9_CloseClears ==
    /\ \A u \in Uris : closed[u] => published[u] = [any |-> TRUE, diagnostics |-> <<>>]
    /\ req.kind = "did_close" =>
           /\ req.attempts = <<>>
           /\ req.publications = <<[uri |-> req.document.uri, diagnostics |-> <<>>]>>

\* a close of one document while another has diagnostics published
C9_Witness ==
    /\ req.kind = "did_close"
    /\ closed[req.document.uri]
    /\ \E u \in Uris : ~closed[u] /\ published[u].diagnostics # <<>>

\* a format request whose handler has returned
Formatted == req.kind = "formatting" /\ ~req.pending

(* C14: a format request whose stdin-mode invocation reports empty stdout   *)
(* returns no edit.                                                         *)
C14_EmptyStdoutNoEdit ==
    (/\ Formatted
     /\ req.attempts # <<>>
     /\ ~req.attempts[1].outcome.raised
     /\ req.attempts[1].outcome.stdout = EmptyText)
    => req.returned = <<>>

\* no carriage return is followed by a line feed
Normalized(text) ==
    \A i \in 1..(Len(text) - 1) : ~(text[i] = CR /\ text[i + 1] = LF)

(* C17: in every strategy, the content handed to the tool by a stdin-mode   *)
(* invocation is the document source with every \r\n replaced by \n.        *)
C17_StdinSourceNormalized ==
    Finished =>
        \A i \in 1..Len(req.attempts) :
            req.attempts[i].use_stdin =>
                /\ Normalized(req.attempts[i].source)
                /\ req.attempts[i].source =
                       Replace(req.document.source, <<CR, LF>>, <<LF>>)

(* C19: over RPC, a stdin-mode invocation whose result carries an exception *)
(* description is followed by exactly one file-mode invocation, whatever    *)
(* its stdout and stderr.                                                   *)
C19_RpcExceptionFallsBack ==
    Finished =>
        \A i \in 1..Len(req.calls) :
            (/\ req.calls[i].use_stdin
             /\ req.calls[i].attempts # <<>>
             /\ req.calls[i].attempts[1].strategy = "rpc"
             /\ ~req.calls[i].attempts[1].outcome.raised
             /\ req.calls[i].attempts[1].outcome.exception # NoneStr)
            => /\ Len(req.calls[i].attempts) = 2
               /\ ~req.calls[i].attempts[2].use_stdin

(* C16: a did_open, did_save, did_close or format request leaves the        *)
(* workspace settings map and the global settings as they were, whatever    *)
(* the strategy and the tool outcomes: the command line is built on a copy, *)
(* and no stored path, args or interpreter list changes.                    *)
C16_HandlersLeaveSettings ==
    [][req'.kind \in {"did_open", "did_save", "did_close", "formatting"} =>
           /\ WORKSPACE_SETTINGS' = WORKSPACE_SETTINGS
           /\ GLOBAL_SETTINGS' = GLOBAL_SETTINGS]_vars

\* a request of a document whose settings are a stored entry with a path, after
\* two invocations of that executable with a longer command line
C16_Witness ==
    /\ Finished
    /\ SettingsObject(WORKSPACE_SETTINGS, req.document) = 1
    /\ Len(req.attempts) = 2
    /\ req.attempts[2].strategy = "path"
    /\ Len(req.attempts[2].argv) > Len(req.attempts[2].settings.path)
    /\ WORKSPACE_SETTINGS[1].val.path = <<"/opt/sqlfluff">>

-----------------------------------------------------------------------------
(* Properties of settings resolution (SpecSettings).                       *)

Resolved == req.kind = "resolve"

\* the directories above a path, the filesystem root included
Ancestors(p) == {SubSeq(p, 1, k) : k \in 0..(Len(p) - 1)}

\* the ancestors of the resolved document that are workspace roots
KnownAncestors == Ancestors(req.document.path) \cap DictKeys(WORKSPACE_SETTINGS)

(* C5: for a document with an ancestor directory that is a workspace root,  *)
(* the filesystem root included, resolution returns the entry of the        *)
(* deepest such ancestor.                                                   *)
C5_NearestAncestor ==
    (Resolved /\ req.document.path # NonePath /\ KnownAncestors # {}) =>
        LET nearest == CHOOSE d \in KnownAncestors :
                           \A e \in KnownAncestors : Len(e) <= Len(d)
        IN req.out = Ok(DictGet(WORKSPACE_SETTINGS, nearest))

(* C6: for a document with a path and no ancestor that is a workspace root, *)
(* resolution returns a record made for the document's parent directory     *)
(* (cwd, workspaceFS, workspace) and otherwise of the global defaults, and  *)
(* no stored entry.                                                         *)
C6_SynthesizedDefaults ==
    (Resolved /\ req.document.path # NonePath /\ KnownAncestors = {}) =>
        /\ ~req.out.raised
        /\ DOMAIN req.out.val = GlobalKeys \cup {"cwd", "workspaceFS", "workspace"}
        /\ req.out.val.cwd = Parent(req.document.path)
        /\ req.out.val.workspaceFS = Parent(req.document.path)
        /\ req.out.val.workspace = from_fs_path(Parent(req.document.path))
        /\ \A k \in GlobalKeys :
               req.out.val[k] = _get_global_defaults(GLOBAL_SETTINGS)[k]
        /\ \A i \in 1..Len(WORKSPACE_SETTINGS) :
               WORKSPACE_SETTINGS[i].val # req.out.val

\* a file outside the two workspaces the map holds, with global settings given
C6_Witness ==
    /\ Resolved
    /\ req.document.path # NonePath
    /\ KnownAncestors = {}
    /\ Len(WORKSPACE_SETTINGS) = 2
    /\ GLOBAL_SETTINGS # EmptyDict
    /\ req.out.val.diagnosticSeverity = "error"

(* C7 as stated: for a document with no path, resolution fails whatever the *)
(* settings map holds.                                                      *)
C7_AlwaysFails ==
    (Resolved /\ req.document.path = NonePath) => req.out.raised

(* C7 as amended: for a document with no path, resolution fails exactly     *)
(* when the settings map is empty; otherwise it returns the entry stored    *)
(* first.                                                                   *)
C7_FailsOnlyWhenEmpty ==
    (Resolved /\ req.document.path = NonePath) =>
        IF WORKSPACE_SETTINGS = <<>>
        THEN req.out.raised
        ELSE req.out = Ok(WORKSPACE_SETTINGS[1].val)

\* a document with no path resolved against a map of two entries
C7_Witness ==
    /\ Resolved
    /\ req.document.path = NonePath
    /\ Len(WORKSPACE_SETTINGS) = 2
    /\ ~req.out.raised

\* the workspace roots an initialize payload supplies
SuppliedRoots(p) == {p.settings[i].workspace.path : i \in 1..Len(p.settings)}

(* C20: every initialize event leaves the workspace settings map non-empty, *)
(* with the keys it had and the roots the event supplies (the working       *)
(* directory when it supplies none), one entry per key, each with           *)
(* workspaceFS equal to its key; the entry of an event that supplies none   *)
(* is keyed by the working directory and filled from the global defaults.   *)
C20_OneEntryPerRoot ==
    [][req'.kind = "initialize" =>
           /\ WORKSPACE_SETTINGS' # <<>>
           /\ DictKeys(WORKSPACE_SETTINGS') =
                  DictKeys(WORKSPACE_SETTINGS)
                  \cup (IF req'.payload.settings = <<>> THEN {getcwd}
                        ELSE SuppliedRoots(req'.payload))
           /\ Cardinality(DictKeys(WORKSPACE_SETTINGS')) = Len(WORKSPACE_SETTINGS')
           /\ \A i \in 1..Len(WORKSPACE_SETTINGS') :
                  WORKSPACE_SETTINGS'[i].val.workspaceFS = WORKSPACE_SETTINGS'[i].key
           /\ req'.payload.settings = <<>> =>
                  \E i \in 1..Len(WORKSPACE_SETTINGS') :
                      /\ WORKSPACE_SETTINGS'[i].key = getcwd
                      /\ WORKSPACE_SETTINGS'[i].val.cwd = getcwd
                      /\ WORKSPACE_SETTINGS'[i].val.workspace = from_fs_path(getcwd)
                      /\ \A k \in GlobalKeys :
                             WORKSPACE_SETTINGS'[i].val[k] =
                                 _get_global_defaults(GLOBAL_SETTINGS')[k]]_vars

\* an initialize that supplies no workspace, after one that supplied a root
\* other than the working directory and one that supplied global settings
C20_Witness ==
    /\ req.kind = "initialize"
    /\ req.payload.settings = <<>>
    /\ Len(WORKSPACE_SETTINGS) = 2
    /\ WORKSPACE_SETTINGS[1].key # getcwd
    /\ WORKSPACE_SETTINGS[2].key = getcwd
    /\ WORKSPACE_SETTINGS[2].val.path = <<"/opt/sqlfluff">>

-----------------------------------------------------------------------------
(* Properties of output translation (SpecParse).                           *)

Parsed == req.kind = "parse"

SeverityNames == {"error", "warning", "information", "hint"}

(* C10: a severity name outside error, warning, information and hint makes  *)
(* the severity mapping raise: it is mapped to no severity, and the         *)
(* translation produces no diagnostic under it.                             *)
C10_UnknownSeverityRaises ==
    (Parsed /\ req.severity \notin SeverityNames) =>
        /\ req.mapped = Raise("ValueError")
        /\ ~req.out.raised => req.out.val = <<>>

\* a report with two well-formed violations translated under "critical"
C10_Witness ==
    /\ Parsed
    /\ req.severity = "critical"
    /\ req.content = JsonText(JList(<<FileReport(<<Violation(3, 5), Violation(3, 5)>>)>>))
    /\ req.out = Ok(<<>>)

\* the objects of the report translated: the report itself, or the elements of
\* the sequence it is
ReportFiles ==
    IF req.content.kind # "json" THEN <<>>
    ELSE IF req.content.data.t = "list" THEN req.content.data.items
         ELSE <<req.content.data>>

\* the content is a report: an object, or a sequence of objects, whose
\* violations (where given) are a sequence
IsReport ==
    /\ req.content.kind = "json"
    /\ \A i \in 1..Len(ReportFiles) :
          /\ ReportFiles[i].t = "dict"
          /\ "violations" \in DOMAIN ReportFiles[i].d =>
                 ReportFiles[i].d.violations.t = "list"

\* the violation entries of report objects, file by file in the order given
RECURSIVE EntriesOf(_)
EntriesOf(files) ==
    IF files = <<>> THEN <<>>
    ELSE (IF /\ Head(files).t = "dict"
             /\ "violations" \in DOMAIN Head(files).d
             /\ Head(files).d.violations.t = "list"
          THEN Head(files).d.violations.items
          ELSE <<>>) \o EntriesOf(Tail(files))

\* the 1-based position of an entry: the start field when present, otherwise
\* the generic field, otherwise 1
PositionOf(v, start, generic) ==
    IF start \in DOMAIN v.d THEN v.d[start]
    ELSE IF generic \in DOMAIN v.d THEN v.d[generic]
         ELSE JInt(1)

\* an entry that is an object with numbers for its position
WellFormed(v) ==
    /\ v.t = "dict"
    /\ PositionOf(v, "start_line_no", "line_no").t = "int"
    /\ PositionOf(v, "start_line_pos", "line_pos").t = "int"

\* the well-formed entries of the report translated, in report order
WellFormedEntries == SelectSeq(EntriesOf(ReportFiles), WellFormed)

\* the LSP severity of each valid name
LspSeverity ==
    [error |-> "Error", warning |-> "Warning", information |-> "Information",
     hint |-> "Hint"]

(* C11: every diagnostic of one translation carries the severity mapped     *)
(* from the configured name, whatever the violation entry holds (a severity *)
(* of its own included).                                                    *)
C11_UniformSeverity ==
    (Parsed /\ req.severity \in SeverityNames /\ ~req.out.raised) =>
        \A i \in 1..Len(req.out.val) :
            req.out.val[i].severity = LspSeverity[req.severity]

\* a report translated under "hint" with an entry that names the severity
\* "error" and one that names none
C11_Witness ==
    /\ Parsed
    /\ req.severity = "hint"
    /\ req.content = JsonText(FileReport(<<Keyword, Violation(3, 5)>>))
    /\ Len(req.out.val) = 2
    /\ req.out.val[1].severity = "Hint"

(* C12: a violation at the 1-based position (L, C), L >= 1 and C >= 1, read *)
(* from start_line_no/start_line_pos when present and otherwise from        *)
(* line_no/line_pos, gets the range from (L-1, C-1) to (L-1, C).            *)
C12_ZeroBasedRange ==
    (Parsed /\ req.severity \in SeverityNames /\ IsReport /\ ~req.out.raised) =>
        /\ Len(req.out.val) = Len(WellFormedEntries)
        /\ \A i \in 1..Len(WellFormedEntries) :
              LET L == PositionOf(WellFormedEntries[i], "start_line_no", "line_no").v
                  C == PositionOf(WellFormedEntries[i], "start_line_pos", "line_pos").v
              IN (L >= 1 /\ C >= 1) =>
                     req.out.val[i].range =
                         [start |-> [line |-> L - 1, character |-> C - 1],
                          end   |-> [line |-> L - 1, character |-> C]]

\* start_line_no = 3, start_line_pos = 5 gives (2,4)-(2,5); an entry with the
\* generic fields only and one with both follow
C12_Witness ==
    /\ Parsed
    /\ req.severity = "warning"
    /\ \E v \in Entries :
          /\ v.t = "dict"
          /\ DOMAIN v.d = {"start_line_no", "start_line_pos", "line_no", "line_pos", "code"}
          /\ req.content = JsonText(FileReport(<<Violation(3, 5), Keyword, v>>))
    /\ Len(req.out.val) = 3
    /\ req.out.val[1].range = [start |-> [line |-> 2, character |-> 4],
                               end   |-> [line |-> 2, character |-> 5]]
    /\ req.out.val[2].range.start = [line |-> 1, character |-> 0]
    /\ req.out.val[3].range.start = [line |-> 0, character |-> 3]

(* C13: for a content that is no JSON, _parse_sqlfluff_output returns the   *)
(* empty sequence and raises nothing.                                       *)
C13_MalformedJsonEmpty ==
    (Parsed /\ req.content.kind # "json") => req.out = Ok(<<>>)

\* a truncated output translated
C13_Witness ==
    /\ Parsed
    /\ req.content = MalformedText
    /\ req.severity = "warning"
    /\ ~req.out.raised
    /\ req.out.val = <<>>

(* C18: for a report and a valid severity, _parse_sqlfluff_output returns   *)
(* one diagnostic per well-formed violation entry, in report order (file by *)
(* file); a malformed entry is skipped alone.                               *)
C18_OnePerWellFormedEntry ==
    (Parsed /\ req.severity \in SeverityNames /\ IsReport) =>
        /\ ~req.out.raised
        /\ Len(req.out.val) = Len(WellFormedEntries)
        /\ \A i \in 1..Len(WellFormedEntries) :
              /\ req.out.val[i].code = Get(WellFormedEntries[i].d, "code", JStr(""))
              /\ req.out.val[i].message =
                     Get(WellFormedEntries[i].d, "description", JStr(""))
              /\ req.out.val[i].source = TOOL_DISPLAY

\* an entry that is no object between two well-formed entries, which are both
\* translated, in their order
C18_Witness ==
    /\ Parsed
    /\ req.severity = "error"
    /\ req.content = JsonText(FileReport(<<Keyword, JStr("violation"), Violation(3, 5)>>))
    /\ Len(req.out.val) = 2
    /\ req.out.val[1].code = JStr("CP01")
    /\ req.out.val[2].code = JStr("LT01")


-----------------------------------------------------------------------------
(* Properties of line-ending matching (SpecEndings).                       *)

Matched == req.kind = "match"

\* the terminator a line ends with: \r\n, \n, \r, or none (the last line)
TerminatorOf(line) ==
    IF Len(line) >= 2 /\ line[Len(line) - 1] = CR /\ line[Len(line)] = LF
    THEN <<CR, LF>>
    ELSE IF line # <<>> /\ line[Len(line)] \in {CR, LF} THEN <<line[Len(line)]>>
         ELSE <<>>

\* the terminators of the lines of a text
RECURSIVE Terminators(_)
Terminators(text) ==
    IF text = <<>> THEN {}
    ELSE {TerminatorOf(FirstLine(text))}
         \cup Terminators(SubSeq(text, Len(FirstLine(text)) + 1, Len(text)))

(* C15: when the line endings detected for the document and for the tool    *)
(* output differ and both are detected, every line terminator of the text   *)
(* returned is the document's.                                              *)
C15_UniformLineEndings ==
    (/\ Matched
     /\ req.expected # <<>>
     /\ req.actual # <<>>
     /\ req.expected # req.actual)
    => Terminators(req.out) \subseteq {req.expected, <<>>}

-----------------------------------------------------------------------------
(* Properties of a lint under an unknown severity name (Spec).             *)

\* the stdout the lint translated: that of the last invocation, a report
LintedReport ==
    /\ Linted
    /\ req.attempts # <<>>
    /\ ~req.attempts[Len(req.attempts)].outcome.raised
    /\ req.attempts[Len(req.attempts)].outcome.stdout \in {ReportText, LongReportText}

(* C21: a did_open or did_save under a severity name that is none of the    *)
(* four, whose tool run printed a report with violations, returns normally  *)
(* with no diagnostic (the error of each violation is caught inside the     *)
(* translation) and publishes the empty sequence.                           *)
C21_UnknownSeverityPublishesEmpty ==
    (/\ LintedReport
     /\ req.attempts[Len(req.attempts)].settings.diagnosticSeverity \notin SeverityNames)
    => /\ ~req.propagated
       /\ ~req.caught
       /\ req.returned = <<>>
       /\ req.publications = <<[uri |-> req.document.uri, diagnostics |-> <<>>]>>
       /\ published[req.document.uri] = [any |-> TRUE, diagnostics |-> <<>>]

\* a lint under "critical" whose stdin invocation printed the report of three
\* violations
C21_Witness ==
    /\ LintedReport
    /\ Len(req.attempts) = 1
    /\ req.attempts[1].outcome.stdout = LongReportText
    /\ req.attempts[1].outcome.stderr = ""
    /\ req.attempts[1].settings.diagnosticSeverity = "critical"
    /\ req.returned = <<>>
    /\ ~req.caught

====
